---- MODULE Spec2Model ----
(***************************************************************************)
(* A model of the tree package of rsned/datastructures: the AVL, BST and   *)
(* Red-Black containers, their node types, the channel based traversal    *)
(* engine and the equivalence / equality comparators.                      *)
(*                                                                         *)
(* Nodes live in an arena: a container is a record [root, nodes] where     *)
(* nodes is a sequence of node records and a pointer is an index into it  *)
(* (NIL = 0 is the nil pointer).  A node keeps its index for its whole     *)
(* life, as a Go node keeps its address.                                   *)
(***************************************************************************)
EXTENDS Integers, Sequences, FiniteSets, Bags, TLC

\* ------------------------------------------------------------------------
\* Bounds of the model.
\* ------------------------------------------------------------------------
MaxVal == 6
MaxNodes == 7
MaxExtra == 2
MaxTravVal == 3
MaxTravNodes == 3
MaxCmpVal == 1
MaxCmpNodes == 3
MaxFrameVal == 5
MaxFrameNodes == 5
MaxRotVal == 5
MaxRotNodes == 5
MaxEqNodes == 2

Values == 1..MaxVal

\* The nil pointer.
NIL == 0

\* const limit = 4 of updateBalanceFactors.
limit == 4

VARIABLES
    avl,        \* the AVL container: [root, nodes]
    avlStored,  \* bag of the values for which AVL.Insert returned true
    avlLast,    \* the last call on the AVL container and what it returned
    script,     \* values a driver still has to insert, in order
    bst,        \* the BST container: [root, nodes]
    bstAbs,     \* the mathematical set the BST stands for, and its answer
    bstLast,    \* the last call on the BST container and what it returned
    rb,         \* the RedBlack container: [root, nodes]
    trav,       \* the Traverse call in flight: receiver and order
    ch,         \* the channel Traverse returned: "none", "open" or "closed"
    prod,       \* the producer goroutine: status and call stack
    cons,       \* the consumer: state and the values received so far
    live,       \* the Insert made while the traversal was in flight, if any
    cmp,        \* the last comparison of two trees and its two results
    nilCall,    \* the last Insert made on a nil node reference and its answer
    pub,        \* the last call of the exported Equivalent and Equal
    clone,      \* the tree Clone was given, the tree it returned, the last use
    rot,        \* the last direct call of a rotation: its input and its node
    eq,         \* the binaryTreesEquivalent call in flight and its two producers
    mirror      \* the last Insert made on RedBlack and BST alike, its two answers

avlVars == <<avl, avlStored, avlLast, script>>
bstVars == <<bst, bstAbs, bstLast>>
rbVars == <<rb>>
travVars == <<trav, ch, prod, cons, live>>
cmpVars == <<cmp>>
nilVars == <<nilCall>>
funcVars == <<pub, clone>>
rotVars == <<rot>>
eqVars == <<eq>>
mirrorVars == <<mirror>>

vars == <<avlVars, bstVars, rbVars, travVars, cmpVars, nilVars, funcVars, rotVars, eqVars, mirrorVars>>

\* ------------------------------------------------------------------------
\* Generic read access to a node graph (the BinaryTree interface).
\* ------------------------------------------------------------------------
\* Height counting the links instead of the nodes of the longest path.
RECURSIVE HeightCountsLinks(_, _)
HeightCountsLinks(h, t) ==
    IF t = NIL THEN 0
    ELSE IF h[t].left = NIL /\ h[t].right = NIL THEN 0
    ELSE IF HeightCountsLinks(h, h[t].left) > HeightCountsLinks(h, h[t].right)
         THEN HeightCountsLinks(h, h[t].left) + 1
    ELSE HeightCountsLinks(h, h[t].right) + 1

RECURSIVE Height(_, _)
Height(h, t) ==
    IF t = NIL THEN 0
    ELSE LET lh == Height(h, h[t].left)
             rh == Height(h, h[t].right)
         IN  IF lh > rh THEN lh + 1 ELSE rh + 1

RECURSIVE Search(_, _, _)
Search(h, t, v) ==
    IF t = NIL THEN FALSE
    ELSE IF v = h[t].value THEN TRUE
    ELSE IF v < h[t].value THEN Search(h, h[t].left, v)
    ELSE Search(h, h[t].right, v)

\* The In-Order sequence of the subtree rooted at t: left, self, right.
RECURSIVE InOrder(_, _)
InOrder(h, t) ==
    IF t = NIL THEN <<>>
    ELSE InOrder(h, h[t].left) \o <<h[t].value>> \o InOrder(h, h[t].right)

\* The Pre-Order sequence: self, left, right.
RECURSIVE PreOrder(_, _)
PreOrder(h, t) ==
    IF t = NIL THEN <<>>
    ELSE <<h[t].value>> \o PreOrder(h, h[t].left) \o PreOrder(h, h[t].right)

\* The Post-Order sequence: left, right, self.
RECURSIVE PostOrder(_, _)
PostOrder(h, t) ==
    IF t = NIL THEN <<>>
    ELSE PostOrder(h, h[t].left) \o PostOrder(h, h[t].right) \o <<h[t].value>>

\* The set of nodes of the subtree rooted at t.
RECURSIVE NodesOf(_, _)
NodesOf(h, t) ==
    IF t = NIL THEN {}
    ELSE {t} \cup NodesOf(h, h[t].left) \cup NodesOf(h, h[t].right)

\* ------------------------------------------------------------------------
\* avlNode
\* ------------------------------------------------------------------------
avlNode(v, p) == [value |-> v, bf |-> 0, parent |-> p, left |-> NIL, right |-> NIL]

balanceFactor(h, t) ==
    IF t = NIL THEN 0 ELSE Height(h, h[t].right) - Height(h, h[t].left)

RECURSIVE ubfLoop(_, _, _)
ubfLoop(h, x, i) ==
    IF x = NIL THEN h
    ELSE LET h2 == [h EXCEPT ![x].bf = balanceFactor(h, x)]
         IN  IF i + 1 > limit THEN h2 ELSE ubfLoop(h2, h[x].parent, i + 1)

updateBalanceFactors(h, node) == ubfLoop(h, node, 0)

\* The parent update of a moved subtree left out.
SetParentSkipped(h, c, p) == h

SetParent(h, c, p) == IF c # NIL THEN [h EXCEPT ![c].parent = p] ELSE h

\* node.left = l; node.right = r
SetChildren(h, node, l, r) == [h EXCEPT ![node].left = l, ![node].right = r]

\* if node.left != nil { node.left.parent = node }, and the same for right.
AdoptLeft(h, node) == SetParent(h, h[node].left, node)
AdoptRight(h, node) == SetParent(h, h[node].right, node)

\* An assignment in place of the exchange: a's value is overwritten.
SwapValuesOverwrites(h, a, b) == [h EXCEPT ![a].value = h[b].value]

\* a.value, b.value = b.value, a.value
SwapValues(h, a, b) == [h EXCEPT ![a].value = h[b].value, ![b].value = h[a].value]

\* updateBalanceFactors(node.left)
UpdateFromLeft(h, node) == updateBalanceFactors(h, h[node].left)

\* if node.right != nil { node.right.bf = node.right.balanceFactor() }
RefreshRight(h, node) ==
    IF h[node].right # NIL
    THEN [h EXCEPT ![h[node].right].bf = balanceFactor(h, h[node].right)]
    ELSE h

\* node.left.left = grandchildL; node.left.right = childL, each followed by
\* the parent update of the moved subtree.
RelinkLeftChild(h, node, grandchildL, childL) ==
    AdoptRight(
        [AdoptLeft([h EXCEPT ![h[node].left].left = grandchildL], h[node].left)
            EXCEPT ![h[node].left].right = childL],
        h[node].left)

\* node.right.left = grandchildR; node.right.right = childR, each followed by
\* the parent update of the moved subtree.
RelinkRightChild(h, node, grandchildR, childR) ==
    AdoptRight(
        [AdoptLeft([h EXCEPT ![h[node].right].left = grandchildR], h[node].right)
            EXCEPT ![h[node].right].right = childR],
        h[node].right)

rotateLeftLinks(h, node, childL, childR, grandchildL, grandchildR) ==
    SwapValues(
        RelinkLeftChild(
            AdoptRight(SetChildren(h, node, childR, grandchildR), node),
            node, grandchildL, childL),
        node, childR)

rotateLeft(h, node) ==
    RefreshRight(
        UpdateFromLeft(
            rotateLeftLinks(h, node, h[node].left, h[node].right,
                            h[h[node].right].left, h[h[node].right].right),
            node),
        node)

\* rotateRight hanging the two moved subtrees on the wrong sides of the
\* demoted node.
rotateRightLinksCrossed(h, node, childL, childR, grandchildL, grandchildR) ==
    SwapValues(
        RelinkRightChild(
            AdoptLeft(SetChildren(h, node, grandchildL, childL), node),
            node, childR, grandchildR),
        node, childL)

rotateRightLinks(h, node, childL, childR, grandchildL, grandchildR) ==
    SwapValues(
        RelinkRightChild(
            AdoptLeft(SetChildren(h, node, grandchildL, childL), node),
            node, grandchildR, childR),
        node, childL)

rotateRight(h, node) ==
    RefreshRight(
        UpdateFromLeft(
            rotateRightLinks(h, node, h[node].left, h[node].right,
                             h[h[node].left].left, h[h[node].left].right),
            node),
        node)

\* A rotation dereferences the child it promotes: a nil child is a nil
\* pointer dereference, which ends the program.
CanRotateLeft(h, node) == node # NIL /\ h[node].right # NIL
CanRotateRight(h, node) == node # NIL /\ h[node].left # NIL

\* The state of an Insert in progress: the node graph, the rotations applied
\* so far and whether the call died on a nil pointer.
Crash(st, h) == [st EXCEPT !.h = h, !.panic = TRUE]
Rotated(st, h, name, x) == [st EXCEPT !.h = h, !.rots = Append(@, <<name, x>>)]

\* The second rotation of a double rotation, on the graph h the first left.
ThenRotateLeft(st, h, node) ==
    IF ~CanRotateLeft(h, node) THEN Crash(st, h)
    ELSE Rotated(st, rotateLeft(h, node), "RightLeft", node)

ThenRotateRight(st, h, node) ==
    IF ~CanRotateRight(h, node) THEN Crash(st, h)
    ELSE Rotated(st, rotateRight(h, node), "LeftRight", node)

rotateRightLeft(st, node) ==
    IF ~CanRotateRight(st.h, st.h[node].right) THEN Crash(st, st.h)
    ELSE ThenRotateLeft(st, rotateRight(st.h, st.h[node].right), node)

rotateLeftRight(st, node) ==
    IF ~CanRotateLeft(st.h, st.h[node].left) THEN Crash(st, st.h)
    ELSE ThenRotateRight(st, rotateLeft(st.h, st.h[node].left), node)

\* The body of the rebalancing loop of avlNode.Insert for one node x.
rebalanceAt(st, x) ==
    IF st.h[x].bf > 1 /\ st.h[x].right # NIL
    THEN IF st.h[st.h[x].right].bf < 0 THEN rotateRightLeft(st, x)
         ELSE IF st.h[st.h[x].right].bf > 0
              THEN Rotated(st, rotateLeft(st.h, x), "Left", x)
              ELSE st
    ELSE IF st.h[x].bf < -1 /\ st.h[x].left # NIL
    THEN IF st.h[st.h[x].left].bf > 0 THEN rotateLeftRight(st, x)
         ELSE IF st.h[st.h[x].left].bf < 0
              THEN Rotated(st, rotateRight(st.h, x), "Right", x)
              ELSE st
    ELSE st

\* for x := t; x != nil; x = x.parent { ... }
RECURSIVE walkUp(_, _)
ParentOf(st, x) == st.h[x].parent

walkNext(st, x) == walkUp(st, ParentOf(st, x))

walkUp(st, x) ==
    IF x = NIL \/ st.panic THEN st
    ELSE IF st.h[x].bf = 0 THEN walkNext(st, x)
    ELSE walkNext(rebalanceAt(st, x), x)

Result(h, ret) == [h |-> h, ret |-> ret, rots |-> <<>>, panic |-> FALSE]

\* t.left = &avlNode{parent: t, value: v} or the same on the right.
AttachLeaf(h, t, v) ==
    IF v < h[t].value
    THEN [Append(h, avlNode(v, t)) EXCEPT ![t].left = Len(h) + 1]
    ELSE [Append(h, avlNode(v, t)) EXCEPT ![t].right = Len(h) + 1]

RECURSIVE avlNodeInsert(_, _, _)
avlNodeInsert(h, t, v) ==
    IF t = NIL THEN Result(h, TRUE)
    ELSE IF v = h[t].value THEN Result(h, FALSE)
    ELSE IF v < h[t].value /\ h[t].left # NIL THEN avlNodeInsert(h, h[t].left, v)
    ELSE IF v > h[t].value /\ h[t].right # NIL THEN avlNodeInsert(h, h[t].right, v)
    ELSE walkUp(Result(updateBalanceFactors(AttachLeaf(h, t, v), t), TRUE), t)

\* ------------------------------------------------------------------------
\* BSTNode and redBlackNode
\* ------------------------------------------------------------------------
BSTNode(v) == [value |-> v, left |-> NIL, right |-> NIL]

\* A node that is made red.
redBlackNodeRed(v) == [value |-> v, isRed |-> TRUE, left |-> NIL, right |-> NIL]

redBlackNode(v) == [value |-> v, isRed |-> FALSE, left |-> NIL, right |-> NIL]

RECURSIVE BSTNodeInsertDup(_, _, _)
BSTNodeInsertDup(h, t, v) ==
    IF t = NIL THEN [h |-> h, ret |-> FALSE]
    ELSE IF v < h[t].value
    THEN IF h[t].left = NIL
         THEN [h |-> [Append(h, BSTNode(v)) EXCEPT ![t].left = Len(h) + 1], ret |-> TRUE]
         ELSE BSTNodeInsertDup(h, h[t].left, v)
    ELSE IF h[t].right = NIL
         THEN [h |-> [Append(h, BSTNode(v)) EXCEPT ![t].right = Len(h) + 1], ret |-> TRUE]
         ELSE BSTNodeInsertDup(h, h[t].right, v)

RECURSIVE BSTNodeInsert(_, _, _)
BSTNodeInsert(h, t, v) ==
    IF t = NIL THEN [h |-> h, ret |-> FALSE]
    ELSE IF v = h[t].value THEN [h |-> h, ret |-> FALSE]
    ELSE IF v < h[t].value
    THEN IF h[t].left = NIL
         THEN [h |-> [Append(h, BSTNode(v)) EXCEPT ![t].left = Len(h) + 1], ret |-> TRUE]
         ELSE BSTNodeInsert(h, h[t].left, v)
    ELSE IF h[t].right = NIL
         THEN [h |-> [Append(h, BSTNode(v)) EXCEPT ![t].right = Len(h) + 1], ret |-> TRUE]
         ELSE BSTNodeInsert(h, h[t].right, v)

RECURSIVE BSTNodeSearch(_, _, _)
BSTNodeSearch(h, t, v) ==
    IF t = NIL THEN FALSE
    ELSE IF v = h[t].value THEN TRUE
    ELSE IF v < h[t].value THEN BSTNodeSearch(h, h[t].left, v)
    ELSE BSTNodeSearch(h, h[t].right, v)

RECURSIVE redBlackNodeInsert(_, _, _)
redBlackNodeInsert(h, t, v) ==
    IF t = NIL THEN [h |-> h, ret |-> FALSE]
    ELSE IF v = h[t].value THEN [h |-> h, ret |-> FALSE]
    ELSE IF v < h[t].value
    THEN IF h[t].left = NIL
         THEN [h |-> [Append(h, redBlackNode(v)) EXCEPT ![t].left = Len(h) + 1],
               ret |-> TRUE]
         ELSE redBlackNodeInsert(h, h[t].left, v)
    ELSE IF h[t].right = NIL
         THEN [h |-> [Append(h, redBlackNode(v)) EXCEPT ![t].right = Len(h) + 1],
               ret |-> TRUE]
         ELSE redBlackNodeInsert(h, h[t].right, v)

\* ------------------------------------------------------------------------
\* The containers.
\* ------------------------------------------------------------------------
NewAVL == [root |-> NIL, nodes |-> <<>>]
NewBST == [root |-> NIL, nodes |-> <<>>]
NewRedBlack == [root |-> NIL, nodes |-> <<>>]

InContainer(c, r) ==
    [c |-> [c EXCEPT !.nodes = r.h], ret |-> r.ret, rots |-> r.rots, panic |-> r.panic]

AVLInsertResult(c, v) ==
    IF c.root = NIL
    THEN [c |-> [root |-> 1, nodes |-> <<avlNode(v, NIL)>>],
          ret |-> TRUE, rots |-> <<>>, panic |-> FALSE]
    ELSE InContainer(c, avlNodeInsert(c.nodes, c.root, v))

AVLSearchResult(c, v) == Search(c.nodes, c.root, v)

\* The container's Insert dropping the answer of the node's Insert.
WithNodesReturnsFalse(c, r) == [c |-> [c EXCEPT !.nodes = r.h], ret |-> FALSE]

WithNodes(c, r) == [c |-> [c EXCEPT !.nodes = r.h], ret |-> r.ret]

BSTInsertResult(c, v) ==
    IF c.root = NIL
    THEN [c |-> [root |-> 1, nodes |-> <<BSTNode(v)>>], ret |-> TRUE]
    ELSE WithNodes(c, BSTNodeInsert(c.nodes, c.root, v))

BSTSearchResult(c, v) ==
    IF c.root = NIL THEN FALSE ELSE BSTNodeSearch(c.nodes, c.root, v)

RedBlackInsertResult(c, v) ==
    IF c.root = NIL
    THEN [c |-> [root |-> 1, nodes |-> <<redBlackNode(v)>>], ret |-> TRUE]
    ELSE WithNodes(c, redBlackNodeInsert(c.nodes, c.root, v))

\* Height of the containers: 0 without a root, else the root's Height.
BSTHeight(c) == IF c.root = NIL THEN 0 ELSE Height(c.nodes, c.root)
AVLHeight(c) == Height(c.nodes, c.root)
RedBlackHeight(c) == IF c.root = NIL THEN 0 ELSE Height(c.nodes, c.root)

\* A Delete that answers true.
BSTNodeDeleteAnswersTrue(h, t, v) == [h |-> h, ret |-> TRUE]

\* Delete of every node type: if t == nil { return false }; return false.
BSTNodeDelete(h, t, v) == [h |-> h, ret |-> FALSE]
avlNodeDelete(h, t, v) == [h |-> h, ret |-> FALSE]
redBlackNodeDelete(h, t, v) == [h |-> h, ret |-> FALSE]

BSTDeleteResult(c, v) ==
    IF c.root = NIL THEN [c |-> c, ret |-> FALSE]
    ELSE WithNodes(c, BSTNodeDelete(c.nodes, c.root, v))

AVLDeleteResult(c, v) == [c |-> c, ret |-> FALSE]

RedBlackDeleteResult(c, v) ==
    IF c.root = NIL THEN [c |-> c, ret |-> FALSE]
    ELSE WithNodes(c, redBlackNodeDelete(c.nodes, c.root, v))

\* ------------------------------------------------------------------------
\* Calls on the AVL container.
\* ------------------------------------------------------------------------
NoCall == [op |-> "none", v |-> 0, ret |-> FALSE, rots |-> <<>>, panic |-> FALSE]

\* The effect of an Insert(v) call whose outcome is r.
AVLInserted(v, r) ==
    /\ avl' = r.c
    /\ avlStored' = IF r.ret THEN avlStored (+) SetToBag({v}) ELSE avlStored
    /\ avlLast' = [op |-> "Insert", v |-> v, ret |-> r.ret,
                   rots |-> r.rots, panic |-> r.panic]

DoAVLInsert(v) ==
    /\ ~avlLast.panic
    /\ AVLInserted(v, AVLInsertResult(avl, v))

AVLInsert(v) ==
    /\ script = <<>>
    /\ Len(avl.nodes) < MaxNodes
    /\ DoAVLInsert(v)
    /\ UNCHANGED <<script, bstVars, rbVars, travVars, cmpVars, nilVars, funcVars, rotVars, eqVars, mirrorVars>>

AVLSearch(v) ==
    /\ script = <<>>
    /\ ~avlLast.panic
    /\ avlLast' = [op |-> "Search", v |-> v, ret |-> AVLSearchResult(avl, v),
                   rots |-> <<>>, panic |-> FALSE]
    /\ UNCHANGED <<avl, avlStored, script, bstVars, rbVars, travVars, cmpVars, nilVars, funcVars, rotVars, eqVars, mirrorVars>>

\* A driver that builds a deep tree first: the 27 values of a tree of height
\* 6 in level order (no insertion of the script rotates), then free inserts.
DeepScript ==
    <<8, 3, 16, 1, 5, 11, 21, 2, 4, 6, 9, 13, 18, 24, 7, 10, 12, 14, 17, 19,
      22, 26, 15, 20, 23, 25, 27>>

DeepValues == 0..(Len(DeepScript) + MaxExtra + 1)

ScriptedInsert ==
    /\ script # <<>>
    /\ DoAVLInsert(Head(script))
    /\ script' = Tail(script)
    /\ UNCHANGED <<bstVars, rbVars, travVars, cmpVars, nilVars, funcVars, rotVars, eqVars, mirrorVars>>

DeepInsert(v) ==
    /\ script = <<>>
    /\ Len(avl.nodes) < Len(DeepScript) + MaxExtra
    /\ DoAVLInsert(v)
    /\ UNCHANGED <<script, bstVars, rbVars, travVars, cmpVars, nilVars, funcVars, rotVars, eqVars, mirrorVars>>

\* A driver that builds a tree of height 7 without a rotation (DeepScript
\* with every value doubled, which leaves room between the values), then
\* free inserts.
TwiceScript == [i \in 1..Len(DeepScript) |-> 2 * DeepScript[i]]

\* A driver that builds, without a rotation, a root whose left subtree has
\* two subtrees of height 5 and whose right subtree has height 4, in level
\* order, then free inserts.
StaleScript ==
    <<52, 26, 62, 16, 42, 58, 66, 10, 22, 36, 48, 56, 60, 64, 6, 14, 20, 24,
      32, 40, 46, 50, 54, 4, 8, 12, 18, 30, 34, 38, 44, 2, 28>>

WalkValues == 0..(2 * Len(StaleScript) + 1)

\* An Insert after the script base has been played.
ExtraInsert(base, v) ==
    /\ script = <<>>
    /\ Len(avl.nodes) < Len(base) + MaxExtra
    /\ DoAVLInsert(v)
    /\ UNCHANGED <<script, bstVars, rbVars, travVars, cmpVars, nilVars, funcVars, rotVars, eqVars, mirrorVars>>

\* ------------------------------------------------------------------------
\* Calls on the BST container, next to the set it stands for.
\* ------------------------------------------------------------------------
NoBSTCall == [op |-> "none", v |-> 0, ret |-> FALSE]

BSTInserted(v, r) ==
    /\ bst' = r.c
    /\ bstLast' = [op |-> "Insert", v |-> v, ret |-> r.ret]
    /\ bstAbs' = [set |-> bstAbs.set \cup {v}, ret |-> v \notin bstAbs.set]

BSTInsert(v) ==
    /\ Len(bst.nodes) < MaxNodes
    /\ BSTInserted(v, BSTInsertResult(bst, v))
    /\ UNCHANGED <<avlVars, rbVars, travVars, cmpVars, nilVars, funcVars, rotVars, eqVars, mirrorVars>>

BSTSearch(v) ==
    /\ bstLast' = [op |-> "Search", v |-> v, ret |-> BSTSearchResult(bst, v)]
    /\ bstAbs' = [bstAbs EXCEPT !.ret = v \in bstAbs.set]
    /\ UNCHANGED <<bst, avlVars, rbVars, travVars, cmpVars, nilVars, funcVars, rotVars, eqVars, mirrorVars>>

\* ------------------------------------------------------------------------
\* Traversal: Traverse, the producer goroutine running traverseBinaryTree,
\* the unbuffered channel and the consumer.
\* ------------------------------------------------------------------------
TravValues == 1..MaxTravVal

Orders == {"In-Order", "Pre-Order", "Post-Order", "Reverse-Order", "Level-Order"}

\* The receivers of a Traverse call: the containers BST, AVL (src/tree/avl.go),
\* AVL as of src/unnamed/part_001 and RedBlack, and the root node of each
\* container taken as a node.
Subjects == {"BST", "AVL", "AVL.part_001", "RedBlack",
             "BSTNode", "avlNode", "redBlackNode"}

\* The container whose node graph a receiver reads.
TreeOf(subject) ==
    IF subject \in {"BST", "BSTNode"} THEN bst
    ELSE IF subject \in {"AVL", "AVL.part_001", "avlNode"} THEN avl
    ELSE rb

\* Traverse of these receivers only makes the channel.
StubTraverse == {"AVL", "RedBlack"}

\* traverseBinaryTree with the Post-Order case sending before it goes right.
ProgramPostSendsEarly(order) ==
    CASE order = "In-Order" -> <<"L", "V", "R">>
      [] order = "Pre-Order" -> <<"V", "L", "R">>
      [] order = "Post-Order" -> <<"L", "V", "R">>
      [] order = "Reverse-Order" -> <<"R", "V", "L">>
      [] OTHER -> <<>>

\* traverseBinaryTree with the Reverse-Order case going left first.
ProgramReverseLeftFirst(order) ==
    CASE order = "In-Order" -> <<"L", "V", "R">>
      [] order = "Pre-Order" -> <<"V", "L", "R">>
      [] order = "Post-Order" -> <<"L", "R", "V">>
      [] order = "Reverse-Order" -> <<"L", "V", "R">>
      [] OTHER -> <<>>

\* What one activation of traverseBinaryTree does, in order: "L" and "R" are
\* the guarded recursive calls, "V" is the send of the node's value.
Program(order) ==
    CASE order = "In-Order" -> <<"L", "V", "R">>
      [] order = "Pre-Order" -> <<"V", "L", "R">>
      [] order = "Post-Order" -> <<"L", "R", "V">>
      [] order = "Reverse-Order" -> <<"R", "V", "L">>
      [] OTHER -> <<>>

NoTraverse == [subject |-> "none", order |-> "none"]
NoProducer == [status |-> "none", stack |-> <<>>]
IdleConsumer == [state |-> "idle", got |-> <<>>]
NoLive == [inserted |-> FALSE, before |-> <<>>, after |-> <<>>]

Frame(node) == [node |-> node, i |-> 1]

\* The goroutine Traverse starts for a receiver whose root pointer is root.
Spawned(subject, root) ==
    IF subject \in StubTraverse THEN NoProducer
    ELSE IF subject = "avlNode" /\ root = NIL THEN NoProducer
    ELSE [status |-> "running", stack |-> <<Frame(root)>>]

Traverse(subject, order) ==
    /\ cons.state = "idle"
    /\ trav' = [subject |-> subject, order |-> order]
    /\ prod' = Spawned(subject, TreeOf(subject).root)
    /\ ch' = IF subject = "avlNode" /\ TreeOf(subject).root = NIL
             THEN "closed" ELSE "open"
    /\ cons' = [state |-> "receiving", got |-> <<>>]
    /\ UNCHANGED <<live, avlVars, bstVars, rbVars, cmpVars, nilVars, funcVars, rotVars, eqVars, mirrorVars>>

Top(stack) == stack[Len(stack)]
Pop(stack) == SubSeq(stack, 1, Len(stack) - 1)
Advance(stack) == [stack EXCEPT ![Len(stack)].i = @ + 1]

\* The next instruction of the running activation; "ret" when it is over.
Instr(order, frame) ==
    IF frame.i > Len(Program(order)) THEN "ret" ELSE Program(order)[frame.i]

\* if tree.HasLeft() { traverseBinaryTree(tree.Left(), tOrder, ch) }
Descend(stack, child) ==
    IF child # NIL THEN Append(Advance(stack), Frame(child)) ELSE Advance(stack)

\* The call traverseBinaryTree(tree.Right(), ...) made on tree.Left().
StepStackRightGoesLeft(h, stack, instr) ==
    IF instr = "ret" THEN Pop(stack)
    ELSE Descend(stack, h[Top(stack).node].left)

StepStack(h, stack, instr) ==
    IF instr = "ret" THEN Pop(stack)
    ELSE IF instr = "L" THEN Descend(stack, h[Top(stack).node].left)
    ELSE Descend(stack, h[Top(stack).node].right)

\* One step of the producer that is not a send: a return, or a guarded
\* recursive call.  Any method call on a nil node pointer is a nil pointer
\* dereference.
ProducerStep ==
    /\ prod.status = "running"
    /\ prod.stack # <<>>
    /\ Instr(trav.order, Top(prod.stack)) # "V" \/ Top(prod.stack).node = NIL
    /\ prod' = IF Instr(trav.order, Top(prod.stack)) # "ret" /\ Top(prod.stack).node = NIL
               THEN [prod EXCEPT !.status = "panicked"]
               ELSE [prod EXCEPT !.stack = StepStack(TreeOf(trav.subject).nodes, @,
                                                     Instr(trav.order, Top(@)))]
    /\ UNCHANGED <<live, trav, ch, cons, avlVars, bstVars, rbVars, cmpVars, nilVars, funcVars, rotVars, eqVars, mirrorVars>>

\* ch <- tree.Value() on a channel with a buffer: the send completes without
\* a receiver.
RendezvousBuffered ==
    /\ prod.status = "running"
    /\ prod.stack # <<>>
    /\ Top(prod.stack).node # NIL
    /\ Instr(trav.order, Top(prod.stack)) = "V"
    /\ ch = "open"
    /\ prod' = [prod EXCEPT !.stack = Advance(@)]
    /\ UNCHANGED <<live, trav, ch, cons, avlVars, bstVars, rbVars, cmpVars, nilVars, funcVars, rotVars, eqVars, mirrorVars>>

\* ch <- tree.Value() meeting the consumer's receive.
Rendezvous ==
    /\ prod.status = "running"
    /\ prod.stack # <<>>
    /\ Top(prod.stack).node # NIL
    /\ Instr(trav.order, Top(prod.stack)) = "V"
    /\ ch = "open"
    /\ cons.state = "receiving"
    /\ cons' = [cons EXCEPT !.got = Append(@, TreeOf(trav.subject).nodes[Top(prod.stack).node].value)]
    /\ prod' = [prod EXCEPT !.stack = Advance(@)]
    /\ UNCHANGED <<live, trav, ch, avlVars, bstVars, rbVars, cmpVars, nilVars, funcVars, rotVars, eqVars, mirrorVars>>

\* close(ch) once traverseBinaryTree has returned.
CloseChan ==
    /\ prod.status = "running"
    /\ prod.stack = <<>>
    /\ ch' = "closed"
    /\ prod' = [prod EXCEPT !.status = "exited"]
    /\ UNCHANGED <<live, trav, cons, avlVars, bstVars, rbVars, cmpVars, nilVars, funcVars, rotVars, eqVars, mirrorVars>>

\* The consumer's receive on the closed channel: ok is false.
RecvClosed ==
    /\ cons.state = "receiving"
    /\ ch = "closed"
    /\ cons' = [cons EXCEPT !.state = "done"]
    /\ UNCHANGED <<live, trav, ch, prod, avlVars, bstVars, rbVars, cmpVars, nilVars, funcVars, rotVars, eqVars, mirrorVars>>

\* The consumer stops receiving and never comes back to the channel.
Abandon ==
    /\ cons.state = "receiving"
    /\ cons' = [cons EXCEPT !.state = "abandoned"]
    /\ UNCHANGED <<live, trav, ch, prod, avlVars, bstVars, rbVars, cmpVars, nilVars, funcVars, rotVars, eqVars, mirrorVars>>

\* The client builds one tree before it traverses it.
Building(c, others) ==
    /\ cons.state = "idle"
    /\ Len(c.nodes) < MaxTravNodes
    /\ \A o \in others : o.root = NIL

TravBSTInsert(v) ==
    /\ Building(bst, {avl, rb})
    /\ BSTInserted(v, BSTInsertResult(bst, v))
    /\ UNCHANGED <<avlVars, rbVars, travVars, cmpVars, nilVars, funcVars, rotVars, eqVars, mirrorVars>>

TravAVLInsert(v) ==
    /\ Building(avl, {bst, rb})
    /\ DoAVLInsert(v)
    /\ UNCHANGED <<script, bstVars, rbVars, travVars, cmpVars, nilVars, funcVars, rotVars, eqVars, mirrorVars>>

TravRedBlackInsert(v) ==
    /\ Building(rb, {bst, avl})
    /\ rb' = RedBlackInsertResult(rb, v).c
    /\ UNCHANGED <<avlVars, bstVars, travVars, cmpVars, nilVars, funcVars, rotVars, eqVars, mirrorVars>>

\* AVL.Insert(v) by the client while the traversal of the same container is
\* in flight; the In-Order sequences of the tree before and after the call
\* are kept for reference.
LiveAVLInsert(v) ==
    /\ cons.state = "receiving"
    /\ trav.subject = "AVL.part_001"
    /\ ~live.inserted
    /\ DoAVLInsert(v)
    /\ live' = [inserted |-> TRUE,
                before |-> InOrder(avl.nodes, avl.root),
                after |-> InOrder(avl'.nodes, avl'.root)]
    /\ UNCHANGED <<script, bstVars, rbVars, trav, ch, prod, cons, cmpVars, nilVars, funcVars, rotVars, eqVars, mirrorVars>>

\* ------------------------------------------------------------------------
\* Insert on a nil node reference.
\* ------------------------------------------------------------------------
NodeTypes == {"bstNode", "BSTNode", "avlNode", "redBlackNode"}

\* bstNode.Insert is BSTNode.Insert word for word.
bstNodeInsert(h, t, v) == BSTNodeInsert(h, t, v)

\* The heap a node of the given type lives in.
HeapOf(node) ==
    IF node \in {"bstNode", "BSTNode"} THEN bst.nodes
    ELSE IF node = "avlNode" THEN avl.nodes
    ELSE rb.nodes

\* (*node)(nil).Insert(v): the heap it leaves and its answer.
NilInsertResult(node, v) ==
    IF node = "bstNode" THEN bstNodeInsert(bst.nodes, NIL, v)
    ELSE IF node = "BSTNode" THEN BSTNodeInsert(bst.nodes, NIL, v)
    ELSE IF node = "avlNode"
         THEN [h |-> avlNodeInsert(avl.nodes, NIL, v).h,
               ret |-> avlNodeInsert(avl.nodes, NIL, v).ret]
    ELSE redBlackNodeInsert(rb.nodes, NIL, v)

\* The reference the caller holds after (*node)(nil).Insert(v).  The receiver
\* is passed by value: the assignment t = &avlNode{...} of avlNode.Insert
\* is made to the copy inside the call, and the other node types assign
\* nothing.
ReceiverAfter(node, v) == "nil"

NoNilCall == [node |-> "none", v |-> 0, ret |-> FALSE, changed |-> FALSE]

NilInsert(node, v) ==
    /\ nilCall' = [node |-> node, v |-> v,
                   ret |-> NilInsertResult(node, v).ret,
                   changed |-> NilInsertResult(node, v).h # HeapOf(node)]
    /\ avl' = [avl EXCEPT !.nodes = IF node = "avlNode"
                                    THEN NilInsertResult(node, v).h ELSE @]
    /\ bst' = [bst EXCEPT !.nodes = IF node \in {"bstNode", "BSTNode"}
                                    THEN NilInsertResult(node, v).h ELSE @]
    /\ rb' = [rb EXCEPT !.nodes = IF node = "redBlackNode"
                                  THEN NilInsertResult(node, v).h ELSE @]
    /\ UNCHANGED <<avlStored, avlLast, script, bstAbs, bstLast, travVars, cmpVars,
                   funcVars, rotVars, eqVars, mirrorVars>>

\* ------------------------------------------------------------------------
\* Insert and Delete calls on one container at a time.
\* ------------------------------------------------------------------------
FrameValues == 1..MaxFrameVal

\* The client works on container c and leaves the others empty.
Alone(c, others) ==
    /\ Len(c.nodes) < MaxFrameNodes
    /\ \A o \in others : o.root = NIL

FrameAVLInsert(v) ==
    /\ Alone(avl, {bst, rb})
    /\ DoAVLInsert(v)
    /\ UNCHANGED <<script, bstVars, rbVars, travVars, cmpVars, nilVars, funcVars, rotVars, eqVars, mirrorVars>>

FrameBSTInsert(v) ==
    /\ Alone(bst, {avl, rb})
    /\ BSTInserted(v, BSTInsertResult(bst, v))
    /\ UNCHANGED <<avlVars, rbVars, travVars, cmpVars, nilVars, funcVars, rotVars, eqVars, mirrorVars>>

FrameRedBlackInsert(v) ==
    /\ Alone(rb, {avl, bst})
    /\ rb' = RedBlackInsertResult(rb, v).c
    /\ UNCHANGED <<avlVars, bstVars, travVars, cmpVars, nilVars, funcVars, rotVars, eqVars, mirrorVars>>

AVLDelete(v) ==
    /\ bst.root = NIL /\ rb.root = NIL
    /\ ~avlLast.panic
    /\ avl' = AVLDeleteResult(avl, v).c
    /\ avlLast' = [op |-> "Delete", v |-> v, ret |-> AVLDeleteResult(avl, v).ret,
                   rots |-> <<>>, panic |-> FALSE]
    /\ UNCHANGED <<avlStored, script, bstVars, rbVars, travVars, cmpVars, nilVars, funcVars, rotVars, eqVars, mirrorVars>>

BSTDelete(v) ==
    /\ avl.root = NIL /\ rb.root = NIL
    /\ bst' = BSTDeleteResult(bst, v).c
    /\ bstLast' = [op |-> "Delete", v |-> v, ret |-> BSTDeleteResult(bst, v).ret]
    /\ UNCHANGED <<bstAbs, avlVars, rbVars, travVars, cmpVars, nilVars, funcVars, rotVars, eqVars, mirrorVars>>

RedBlackDelete(v) ==
    /\ avl.root = NIL /\ bst.root = NIL
    /\ rb' = RedBlackDeleteResult(rb, v).c
    /\ UNCHANGED <<avlVars, bstVars, travVars, cmpVars, nilVars, funcVars, rotVars, eqVars, mirrorVars>>

\* ------------------------------------------------------------------------
\* The comparators of binary_tree_functions.go.
\* ------------------------------------------------------------------------
CmpValues == -1..MaxCmpVal

\* What a and b can be: the nil interface, or the root pointer of a
\* container (a nil pointer when the container is empty).
Operands == {"nil", "bst", "avl", "rb"}

OperandTree(x) ==
    IF x = "bst" THEN bst
    ELSE IF x = "avl" THEN avl
    ELSE IF x = "rb" THEN rb
    ELSE [root |-> NIL, nodes |-> <<>>]

isTreeNil(x) == x = "nil" \/ OperandTree(x).root = NIL

\* aVal, moreA := <-chA on a channel that delivers s and is then closed: the
\* i-th receive yields the zero value and false once s is used up.
Recv(s, i) ==
    IF i <= Len(s) THEN [val |-> s[i], more |-> TRUE] ELSE [val |-> 0, more |-> FALSE]

\* The loop of binaryTreesEquivalent without the test of moreA against moreB.
RECURSIVE equivLoopValuesOnly(_, _, _)
equivLoopValuesOnly(sa, sb, i) ==
    IF Recv(sa, i).val # Recv(sb, i).val THEN FALSE
    ELSE IF ~Recv(sa, i).more /\ ~Recv(sb, i).more THEN TRUE
    ELSE equivLoopValuesOnly(sa, sb, i + 1)

RECURSIVE equivLoop(_, _, _)
equivLoop(sa, sb, i) ==
    IF Recv(sa, i).val # Recv(sb, i).val THEN FALSE
    ELSE IF Recv(sa, i).more # Recv(sb, i).more THEN FALSE
    ELSE IF ~Recv(sa, i).more /\ ~Recv(sb, i).more THEN TRUE
    ELSE equivLoop(sa, sb, i + 1)

\* What a.Traverse(TraverseInOrder) delivers for a node that is not nil.
InOrderChannel(x) == InOrder(OperandTree(x).nodes, OperandTree(x).root)

\* binaryTreesEquivalent looking only at a to decide the nil cases.
binaryTreesEquivalentNilFirst(a, b) ==
    IF isTreeNil(a) THEN TRUE
    ELSE IF isTreeNil(b) THEN FALSE
    ELSE equivLoop(InOrderChannel(a), InOrderChannel(b), 1)

binaryTreesEquivalent(a, b) ==
    IF isTreeNil(a) = isTreeNil(b) /\ isTreeNil(a) THEN TRUE
    ELSE IF isTreeNil(a) # isTreeNil(b) THEN FALSE
    ELSE equivLoop(InOrderChannel(a), InOrderChannel(b), 1)

RECURSIVE traverseBinaryTreeStructure(_, _)
traverseBinaryTreeStructure(h, t) ==
    IF t = NIL THEN <<>>
    ELSE (IF h[t].left # NIL
          THEN <<"dL">> \o traverseBinaryTreeStructure(h, h[t].left) \o <<"up">>
          ELSE <<>>)
         \o <<"V">>
         \o (IF h[t].right # NIL
             THEN <<"dR">> \o traverseBinaryTreeStructure(h, h[t].right) \o <<"up">>
             ELSE <<>>)

binaryTreeStructure(x) ==
    traverseBinaryTreeStructure(OperandTree(x).nodes, OperandTree(x).root)

binaryTreeStructureEqual(a, b) == binaryTreeStructure(a) = binaryTreeStructure(b)

\* binaryTreesEqual without the comparison of the two structures.
binaryTreesEqualValuesOnly(a, b) == binaryTreesEquivalent(a, b)

binaryTreesEqual(a, b) ==
    binaryTreesEquivalent(a, b) /\ binaryTreeStructureEqual(a, b)

\* No Clone call was made yet.
NoClone == [of |-> "none", ref |-> "none", last |-> "none", v |-> 0]

NoCompare == [a |-> "none", b |-> "none", equivalent |-> FALSE, equal |-> FALSE]

Compare(a, b) ==
    /\ cmp = NoCompare
    /\ cmp' = [a |-> a, b |-> b,
               equivalent |-> binaryTreesEquivalent(a, b),
               equal |-> binaryTreesEqual(a, b)]
    /\ UNCHANGED <<avlVars, bstVars, rbVars, travVars, nilVars, funcVars, rotVars, eqVars, mirrorVars>>

\* The client builds at most two trees, then compares once.
Preparing(c, others) ==
    /\ cmp = NoCompare
    /\ pub = NoCompare
    /\ clone = NoClone
    /\ Len(c.nodes) < MaxCmpNodes
    /\ \E o \in others : o.root = NIL

CmpBSTInsert(v) ==
    /\ Preparing(bst, {avl, rb})
    /\ BSTInserted(v, BSTInsertResult(bst, v))
    /\ UNCHANGED <<avlVars, rbVars, travVars, cmpVars, nilVars, funcVars, rotVars, eqVars, mirrorVars>>

CmpAVLInsert(v) ==
    /\ Preparing(avl, {bst, rb})
    /\ DoAVLInsert(v)
    /\ UNCHANGED <<script, bstVars, rbVars, travVars, cmpVars, nilVars, funcVars, rotVars, eqVars, mirrorVars>>

CmpRedBlackInsert(v) ==
    /\ Preparing(rb, {bst, avl})
    /\ rb' = RedBlackInsertResult(rb, v).c
    /\ UNCHANGED <<avlVars, bstVars, travVars, cmpVars, nilVars, funcVars, rotVars, eqVars, mirrorVars>>

\* ------------------------------------------------------------------------
\* The exported functions of tree_functions.go.
\* ------------------------------------------------------------------------
\* The Tree values the functions are given: references to the containers.
Trees == {"bst", "avl", "rb"}

\* Equivalent(a, b, opts...): the options are built, then return false.
Equivalent(a, b) == FALSE

\* Equal(a, b, opts...): the options are built, then return false.
Equal(a, b) == FALSE

ExportedCompare(a, b) ==
    /\ pub = NoCompare
    /\ pub' = [a |-> a, b |-> b,
               equivalent |-> Equivalent(a, b),
               equal |-> Equal(a, b)]
    /\ UNCHANGED <<clone, avlVars, bstVars, rbVars, travVars, cmpVars, nilVars, rotVars, eqVars, mirrorVars>>

\* Clone(t): return t.
Clone(t) == t

CloneTree(t) ==
    /\ clone = NoClone
    /\ clone' = [of |-> t, ref |-> Clone(t), last |-> "none", v |-> 0]
    /\ UNCHANGED <<pub, avlVars, bstVars, rbVars, travVars, cmpVars, nilVars, rotVars, eqVars, mirrorVars>>

\* t.Insert(v) on a Tree value: the Insert of the container it refers to.
TreeInsert(t, v) ==
    CASE t = "avl" -> DoAVLInsert(v) /\ UNCHANGED <<script, bstVars, rbVars>>
      [] t = "bst" -> BSTInserted(v, BSTInsertResult(bst, v))
                      /\ UNCHANGED <<avlVars, rbVars>>
      [] t = "rb" -> rb' = RedBlackInsertResult(rb, v).c
                     /\ UNCHANGED <<avlVars, bstVars>>

Handles == {"original", "clone"}

\* The Tree value behind a handle: what Clone was given or what it returned.
Behind(handle) == IF handle = "clone" THEN clone.ref ELSE clone.of

\* The client inserts through one of the two Tree values it holds.
InsertThrough(handle, v) ==
    /\ clone # NoClone
    /\ Len(OperandTree(Behind(handle)).nodes) < MaxCmpNodes
    /\ TreeInsert(Behind(handle), v)
    /\ clone' = [clone EXCEPT !.last = handle, !.v = v]
    /\ UNCHANGED <<pub, travVars, cmpVars, nilVars, rotVars, eqVars, mirrorVars>>

InitFunctions ==
    /\ pub = NoCompare
    /\ clone = NoClone

\* ------------------------------------------------------------------------
\* binaryTreesEquivalent as it runs: the caller and the two goroutines its
\* two Traverse calls start.
\* ------------------------------------------------------------------------
Sides == {"a", "b"}

NoEquivalent ==
    [pc |-> "none", of |-> [s \in Sides |-> "none"],
     prod |-> [s \in Sides |-> NoProducer], ch |-> [s \in Sides |-> "none"],
     got |-> [s \in Sides |-> Recv(<<>>, 1)], ret |-> FALSE]

\* The node type behind an operand.
NodeSubject(x) ==
    IF x = "bst" THEN "BSTNode" ELSE IF x = "avl" THEN "avlNode" ELSE "redBlackNode"

\* return r
Returned(e, r) == [e EXCEPT !.pc = "returned", !.ret = r]

\* chA := a.Traverse(TraverseInOrder); chB := b.Traverse(TraverseInOrder),
\* and the caller goes to its first receive on chA.
Started(a, b) ==
    [pc |-> "a", of |-> [s \in Sides |-> IF s = "a" THEN a ELSE b],
     prod |-> [s \in Sides |->
                 Spawned(NodeSubject(IF s = "a" THEN a ELSE b),
                         OperandTree(IF s = "a" THEN a ELSE b).root)],
     ch |-> [s \in Sides |-> "open"],
     got |-> [s \in Sides |-> Recv(<<>>, 1)], ret |-> FALSE]

EquivalentCall(a, b) ==
    /\ eq = NoEquivalent
    /\ eq' = IF isTreeNil(a) = isTreeNil(b) /\ isTreeNil(a)
             THEN Returned([eq EXCEPT !.of = [s \in Sides |-> IF s = "a" THEN a ELSE b]], TRUE)
             ELSE IF isTreeNil(a) # isTreeNil(b)
             THEN Returned([eq EXCEPT !.of = [s \in Sides |-> IF s = "a" THEN a ELSE b]], FALSE)
             ELSE Started(a, b)
    /\ UNCHANGED <<avlVars, bstVars, rbVars, travVars, cmpVars, nilVars, funcVars, rotVars, mirrorVars>>

\* The three tests of the loop body on the pair just received.
equivTest(e) ==
    IF e.got["a"].val # e.got["b"].val THEN Returned(e, FALSE)
    ELSE IF e.got["a"].more # e.got["b"].more THEN Returned(e, FALSE)
    ELSE IF ~e.got["a"].more /\ ~e.got["b"].more THEN Returned(e, TRUE)
    ELSE [e EXCEPT !.pc = "a"]

\* aVal, moreA := <-chA completes with r and the caller goes to chB;
\* bVal, moreB := <-chB completes with r and the caller runs the tests.
Received(e, s, r) ==
    IF s = "a" THEN [e EXCEPT !.got["a"] = r, !.pc = "b"]
    ELSE equivTest([e EXCEPT !.got["b"] = r])

\* A step of a producer that is not a send.
EquivProducerStep(s) ==
    /\ eq.prod[s].status = "running"
    /\ eq.prod[s].stack # <<>>
    /\ Instr("In-Order", Top(eq.prod[s].stack)) # "V"
    /\ eq' = [eq EXCEPT !.prod[s].stack =
                 StepStack(OperandTree(eq.of[s]).nodes, @, Instr("In-Order", Top(@)))]
    /\ UNCHANGED <<avlVars, bstVars, rbVars, travVars, cmpVars, nilVars, funcVars, rotVars, mirrorVars>>

\* ch <- tree.Value() of producer s meeting the caller's receive on its
\* channel.
EquivRendezvous(s) ==
    /\ eq.pc = s
    /\ eq.prod[s].status = "running"
    /\ eq.prod[s].stack # <<>>
    /\ Instr("In-Order", Top(eq.prod[s].stack)) = "V"
    /\ eq' = Received([eq EXCEPT !.prod[s].stack = Advance(@)], s,
                      [val |-> OperandTree(eq.of[s]).nodes[Top(eq.prod[s].stack).node].value,
                       more |-> TRUE])
    /\ UNCHANGED <<avlVars, bstVars, rbVars, travVars, cmpVars, nilVars, funcVars, rotVars, mirrorVars>>

\* close(ch) of producer s once traverseBinaryTree has returned.
EquivCloseChan(s) ==
    /\ eq.prod[s].status = "running"
    /\ eq.prod[s].stack = <<>>
    /\ eq' = [eq EXCEPT !.prod[s].status = "exited", !.ch[s] = "closed"]
    /\ UNCHANGED <<avlVars, bstVars, rbVars, travVars, cmpVars, nilVars, funcVars, rotVars, mirrorVars>>

\* The caller's receive on the closed channel of side s: the zero value and
\* false.
EquivRecvClosed(s) ==
    /\ eq.pc = s
    /\ eq.ch[s] = "closed"
    /\ eq' = Received(eq, s, [val |-> 0, more |-> FALSE])
    /\ UNCHANGED <<avlVars, bstVars, rbVars, travVars, cmpVars, nilVars, funcVars, rotVars, mirrorVars>>

\* The client builds at most two small trees, then compares once.
EquivInsert(t, v) ==
    /\ eq = NoEquivalent
    /\ Len(OperandTree(t).nodes) < MaxEqNodes
    /\ \E o \in Trees \ {t} : OperandTree(o).root = NIL
    /\ TreeInsert(t, v)
    /\ UNCHANGED <<travVars, cmpVars, nilVars, funcVars, rotVars, eqVars, mirrorVars>>

\* ------------------------------------------------------------------------
\* The same Insert calls on a RedBlack and on a BST container.
\* ------------------------------------------------------------------------
NoMirror == [op |-> "none", v |-> 0, rb |-> FALSE, bst |-> FALSE]

\* The client calls Insert(v) on the RedBlack container and on the BST
\* container.
MirrorInsert(v) ==
    /\ Len(bst.nodes) < MaxNodes
    /\ Len(rb.nodes) < MaxNodes
    /\ rb' = RedBlackInsertResult(rb, v).c
    /\ BSTInserted(v, BSTInsertResult(bst, v))
    /\ mirror' = [op |-> "Insert", v |-> v,
                  rb |-> RedBlackInsertResult(rb, v).ret,
                  bst |-> BSTInsertResult(bst, v).ret]
    /\ UNCHANGED <<avlVars, travVars, cmpVars, nilVars, funcVars, rotVars, eqVars>>

\* ------------------------------------------------------------------------
\* Direct calls of the rotations.
\* ------------------------------------------------------------------------
NoRotation == [op |-> "none", node |-> NIL, before |-> <<>>]

RotValues == 1..MaxRotVal

\* The descent and the attachment of avlNode.Insert up to and including its
\* call of updateBalanceFactors: the tree as the rebalancing loop finds it.
RECURSIVE avlNodeAttach(_, _, _)
avlNodeAttach(h, t, v) ==
    IF v = h[t].value THEN h
    ELSE IF v < h[t].value /\ h[t].left # NIL THEN avlNodeAttach(h, h[t].left, v)
    ELSE IF v > h[t].value /\ h[t].right # NIL THEN avlNodeAttach(h, h[t].right, v)
    ELSE updateBalanceFactors(AttachLeaf(h, t, v), t)

\* A tree of avlNodes is put together leaf by leaf, nothing rotated.
Attach(v) ==
    /\ rot = NoRotation
    /\ Len(avl.nodes) < MaxRotNodes
    /\ avl' = IF avl.root = NIL
              THEN [root |-> 1, nodes |-> <<avlNode(v, NIL)>>]
              ELSE [avl EXCEPT !.nodes = avlNodeAttach(@, avl.root, v)]
    /\ UNCHANGED <<avlStored, avlLast, script, bstVars, rbVars, travVars, cmpVars,
                   nilVars, funcVars, rotVars, eqVars, mirrorVars>>

\* rotateLeft(node) on a node of the tree that has a right child.
RotateLeft(node) ==
    /\ rot = NoRotation
    /\ node \in NodesOf(avl.nodes, avl.root)
    /\ CanRotateLeft(avl.nodes, node)
    /\ avl' = [avl EXCEPT !.nodes = rotateLeft(@, node)]
    /\ rot' = [op |-> "rotateLeft", node |-> node, before |-> avl.nodes]
    /\ UNCHANGED <<avlStored, avlLast, script, bstVars, rbVars, travVars, cmpVars,
                   nilVars, funcVars, eqVars, mirrorVars>>

\* rotateRight(node) on a node of the tree that has a left child.
RotateRight(node) ==
    /\ rot = NoRotation
    /\ node \in NodesOf(avl.nodes, avl.root)
    /\ CanRotateRight(avl.nodes, node)
    /\ avl' = [avl EXCEPT !.nodes = rotateRight(@, node)]
    /\ rot' = [op |-> "rotateRight", node |-> node, before |-> avl.nodes]
    /\ UNCHANGED <<avlStored, avlLast, script, bstVars, rbVars, travVars, cmpVars,
                   nilVars, funcVars, eqVars, mirrorVars>>

\* ------------------------------------------------------------------------
\* Specifications.
\* ------------------------------------------------------------------------
InitAVL ==
    /\ avl = NewAVL
    /\ avlStored = EmptyBag
    /\ avlLast = NoCall

InitBST ==
    /\ bst = NewBST
    /\ bstAbs = [set |-> {}, ret |-> FALSE]
    /\ bstLast = NoBSTCall

InitRedBlack == rb = NewRedBlack

InitTrav ==
    /\ trav = NoTraverse
    /\ ch = "none"
    /\ prod = NoProducer
    /\ cons = IdleConsumer
    /\ live = NoLive

Init ==
    /\ InitAVL
    /\ script = <<>>
    /\ InitBST
    /\ InitRedBlack
    /\ InitTrav
    /\ cmp = NoCompare
    /\ nilCall = NoNilCall
    /\ InitFunctions
    /\ rot = NoRotation
    /\ eq = NoEquivalent
    /\ mirror = NoMirror

NextAVL ==
    \/ \E v \in Values : AVLInsert(v)
    \/ \E v \in Values : AVLSearch(v)

SpecAVL == Init /\ [][NextAVL]_vars

InitDeep ==
    /\ InitAVL
    /\ script = DeepScript
    /\ InitBST
    /\ InitRedBlack
    /\ InitTrav
    /\ cmp = NoCompare
    /\ nilCall = NoNilCall
    /\ InitFunctions
    /\ rot = NoRotation
    /\ eq = NoEquivalent
    /\ mirror = NoMirror

NextAVLDeep ==
    \/ ScriptedInsert
    \/ \E v \in DeepValues : DeepInsert(v)

SpecAVLDeep == InitDeep /\ [][NextAVLDeep]_vars

InitScripted(base) ==
    /\ InitAVL
    /\ script = base
    /\ InitBST
    /\ InitRedBlack
    /\ InitTrav
    /\ cmp = NoCompare
    /\ nilCall = NoNilCall
    /\ InitFunctions
    /\ rot = NoRotation
    /\ eq = NoEquivalent
    /\ mirror = NoMirror

NextAVLTwice ==
    \/ ScriptedInsert
    \/ \E v \in WalkValues : ExtraInsert(TwiceScript, v)

SpecAVLTwice == InitScripted(TwiceScript) /\ [][NextAVLTwice]_vars

NextAVLStale ==
    \/ ScriptedInsert
    \/ \E v \in WalkValues : ExtraInsert(StaleScript, v)

SpecAVLStale == InitScripted(StaleScript) /\ [][NextAVLStale]_vars

NextBST ==
    \/ \E v \in Values : BSTInsert(v)
    \/ \E v \in Values : BSTSearch(v)

SpecBST == Init /\ [][NextBST]_vars

NextTrav ==
    \/ \E v \in TravValues : TravBSTInsert(v)
    \/ \E v \in TravValues : TravAVLInsert(v)
    \/ \E v \in TravValues : TravRedBlackInsert(v)
    \/ \E subject \in Subjects, order \in Orders : Traverse(subject, order)
    \/ ProducerStep
    \/ Rendezvous
    \/ CloseChan
    \/ RecvClosed

SpecTrav == Init /\ [][NextTrav]_vars

NextCmp ==
    \/ \E v \in CmpValues : CmpBSTInsert(v)
    \/ \E v \in CmpValues : CmpAVLInsert(v)
    \/ \E v \in CmpValues : CmpRedBlackInsert(v)
    \/ \E a \in Operands, b \in Operands : Compare(a, b)

SpecCmp == Init /\ [][NextCmp]_vars

NextExported ==
    \/ \E v \in CmpValues : CmpBSTInsert(v)
    \/ \E v \in CmpValues : CmpAVLInsert(v)
    \/ \E v \in CmpValues : CmpRedBlackInsert(v)
    \/ \E a \in Trees, b \in Trees : ExportedCompare(a, b)

SpecExported == Init /\ [][NextExported]_vars

NextClone ==
    \/ \E v \in CmpValues : CmpBSTInsert(v)
    \/ \E v \in CmpValues : CmpAVLInsert(v)
    \/ \E v \in CmpValues : CmpRedBlackInsert(v)
    \/ \E t \in Trees : CloneTree(t)
    \/ \E handle \in Handles, v \in CmpValues : InsertThrough(handle, v)

SpecClone == Init /\ [][NextClone]_vars

NextRot ==
    \/ \E v \in RotValues : Attach(v)
    \/ \E node \in 1..MaxRotNodes : RotateLeft(node)
    \/ \E node \in 1..MaxRotNodes : RotateRight(node)

SpecRot == Init /\ [][NextRot]_vars

NextEquivalent ==
    \/ \E t \in Trees, v \in CmpValues : EquivInsert(t, v)
    \/ \E a \in Operands, b \in Operands : EquivalentCall(a, b)
    \/ \E s \in Sides : EquivProducerStep(s)
    \/ \E s \in Sides : EquivRendezvous(s)
    \/ \E s \in Sides : EquivCloseChan(s)
    \/ \E s \in Sides : EquivRecvClosed(s)

SpecEquivalent == Init /\ [][NextEquivalent]_vars

NextMirror == \E v \in Values : MirrorInsert(v)

SpecMirror == Init /\ [][NextMirror]_vars

NextFrame ==
    \/ \E v \in FrameValues : FrameAVLInsert(v)
    \/ \E v \in FrameValues : FrameBSTInsert(v)
    \/ \E v \in FrameValues : FrameRedBlackInsert(v)
    \/ \E v \in FrameValues : AVLDelete(v)
    \/ \E v \in FrameValues : BSTDelete(v)
    \/ \E v \in FrameValues : RedBlackDelete(v)

SpecFrame == Init /\ [][NextFrame]_vars

NextNil ==
    \/ \E v \in FrameValues : FrameAVLInsert(v)
    \/ \E v \in FrameValues : FrameBSTInsert(v)
    \/ \E v \in FrameValues : FrameRedBlackInsert(v)
    \/ \E node \in NodeTypes, v \in FrameValues : NilInsert(node, v)

SpecNil == Init /\ [][NextNil]_vars

NextTravLive ==
    \/ \E v \in TravValues : TravAVLInsert(v)
    \/ Traverse("AVL.part_001", "In-Order")
    \/ \E v \in TravValues : LiveAVLInsert(v)
    \/ ProducerStep
    \/ Rendezvous
    \/ CloseChan
    \/ RecvClosed

SpecTravLive == Init /\ [][NextTravLive]_vars

NextTravCancel ==
    \/ NextTrav
    \/ Abandon

SpecTravCancel == Init /\ [][NextTravCancel]_vars

\* The Go scheduler runs every goroutine that can take a step; nothing makes
\* a consumer give up.
SpecTravCancelFair ==
    /\ Init /\ [][NextTravCancel]_vars
    /\ WF_vars(ProducerStep) /\ WF_vars(Rendezvous)
    /\ WF_vars(CloseChan) /\ WF_vars(RecvClosed)

\* The Go scheduler runs every goroutine that can take a step.
SpecTravFair ==
    /\ Init /\ [][NextTrav]_vars
    /\ WF_vars(ProducerStep) /\ WF_vars(Rendezvous)
    /\ WF_vars(CloseChan) /\ WF_vars(RecvClosed)

\* ------------------------------------------------------------------------
\* Properties of the AVL container.
\* ------------------------------------------------------------------------
AVLNodes == NodesOf(avl.nodes, avl.root)

\* The values of the subtree rooted at t.
ValuesOf(h, t) == {h[n].value : n \in NodesOf(h, t)}

StrictlyAscending(s) == \A i \in 1..(Len(s) - 1) : s[i] < s[i + 1]

\* C1: in the AVL container every node's left subtree holds only smaller
\* values and its right subtree only larger ones, so the In-Order sequence
\* is strictly ascending.
C1_AVLOrdered ==
    /\ \A n \in AVLNodes :
          /\ \A w \in ValuesOf(avl.nodes, avl.nodes[n].left) : w < avl.nodes[n].value
          /\ \A w \in ValuesOf(avl.nodes, avl.nodes[n].right) : w > avl.nodes[n].value
    /\ StrictlyAscending(InOrder(avl.nodes, avl.root))

\* C2: after every completed Insert every node of the AVL container has
\* subtree heights that differ by at most one.
C2_AVLBalanced ==
    \A n \in AVLNodes : balanceFactor(avl.nodes, n) \in -1..1

\* C3: Search(v) on the AVL container is true exactly for the values for
\* which an earlier Insert returned true.
C3_AVLSearchIffStored ==
    /\ \A v \in Values : Search(avl.nodes, avl.root, v) = BagIn(v, avlStored)
    /\ avlLast.op = "Search" => avlLast.ret = BagIn(avlLast.v, avlStored)

\* C4: an Insert of a value already stored in the AVL container returns
\* false and leaves Height, every Search result and the In-Order sequence
\* as they were.
C4_AVLDuplicateRejected ==
    [][\A v \in Values :
         (avlLast'.op = "Insert" /\ avlLast'.v = v /\ BagIn(v, avlStored))
         => /\ avlLast'.ret = FALSE
            /\ Height(avl'.nodes, avl'.root) = Height(avl.nodes, avl.root)
            /\ InOrder(avl'.nodes, avl'.root) = InOrder(avl.nodes, avl.root)
            /\ \A w \in Values : Search(avl'.nodes, avl'.root, w)
                                   = Search(avl.nodes, avl.root, w)]_vars

\* C5: between Insert calls the stored balance factor of every node equals
\* height(right) - height(left), whatever the depth of the tree.
C5_AVLStoredBalanceFactor ==
    \A n \in AVLNodes : avl.nodes[n].bf = balanceFactor(avl.nodes, n)


\* ------------------------------------------------------------------------
\* Properties of the BST container.
\* ------------------------------------------------------------------------
\* The elements of a finite set of integers in ascending order.
RECURSIVE SortedSeq(_)
SortedSeq(S) ==
    IF S = {} THEN <<>>
    ELSE <<CHOOSE x \in S : \A y \in S : x <= y>>
         \o SortedSeq(S \ {CHOOSE x \in S : \A y \in S : x <= y})

IsPrefix(s, t) == Len(s) <= Len(t) /\ SubSeq(t, 1, Len(s)) = s

\* The sequence the recursive definition of an order gives for a container.
Defined(order, c) ==
    CASE order = "In-Order" -> InOrder(c.nodes, c.root)
      [] order = "Pre-Order" -> PreOrder(c.nodes, c.root)
      [] order = "Post-Order" -> PostOrder(c.nodes, c.root)

C8_TraverseTerminates ==
    (cons.state = "receiving" /\ TreeOf(trav.subject).root # NIL)
    ~> (cons.state = "done")

\* ------------------------------------------------------------------------
\* Properties of the comparators.
\* ------------------------------------------------------------------------
\* The In-Order value sequence an operand stands for; a nil reference and
\* the root of an empty container both stand for the empty sequence.
SeqOf(x) == IF isTreeNil(x) THEN <<>> ELSE InOrderChannel(x)

\* Two subtrees have the same shape.
RECURSIVE SameShape(_, _, _, _)
SameShape(ha, ta, hb, tb) ==
    IF ta = NIL \/ tb = NIL THEN ta = NIL /\ tb = NIL
    ELSE /\ SameShape(ha, ha[ta].left, hb, hb[tb].left)
         /\ SameShape(ha, ha[ta].right, hb, hb[tb].right)

Isomorphic(a, b) ==
    SameShape(OperandTree(a).nodes, OperandTree(a).root,
              OperandTree(b).nodes, OperandTree(b).root)

\* C9: binaryTreesEquivalent(a, b) is true exactly when the In-Order value
\* sequences of a and b are the same sequence, a nil reference and an empty
\* container's root both counting as the empty sequence.
C9_EquivalentIffSameSequence ==
    cmp.a # "none" => cmp.equivalent = (SeqOf(cmp.a) = SeqOf(cmp.b))

\* Two trees of three nodes and different shapes were found equivalent.
C9_Witness ==
    /\ cmp.a # "none"
    /\ cmp.equivalent
    /\ Len(SeqOf(cmp.a)) = 3
    /\ ~Isomorphic(cmp.a, cmp.b)

\* C10: binaryTreesEqual(a, b) is true exactly when a and b have the same
\* In-Order value sequence and the same shape, whatever the variants, and
\* two trees have the same structure tokens exactly when they have the same
\* shape.
C10_EqualIffEquivalentAndSameShape ==
    cmp.a # "none"
    => /\ cmp.equal = (SeqOf(cmp.a) = SeqOf(cmp.b) /\ Isomorphic(cmp.a, cmp.b))
       /\ binaryTreeStructureEqual(cmp.a, cmp.b) = Isomorphic(cmp.a, cmp.b)

\* A BST and an AVL tree of three nodes each were found equal.
C10_Witness ==
    /\ cmp.a = "bst" /\ cmp.b = "avl"
    /\ cmp.equal
    /\ Len(SeqOf(cmp.a)) = 3

\* C11: Equivalent is reflexive and symmetric, also when both operands are
\* the same tree traversed twice at once; Equal implies Equivalent; and
\* some trees are Equivalent without being Equal.
C11_EquivalentReflexiveSymmetric ==
    cmp.a # "none"
    => /\ cmp.a = cmp.b => cmp.equivalent
       /\ cmp.equivalent = binaryTreesEquivalent(cmp.b, cmp.a)
       /\ cmp.equal => cmp.equivalent

\* Two different containers of two or more values each were found
\* Equivalent and not Equal.
C11_Witness ==
    /\ cmp.a # cmp.b
    /\ cmp.equivalent /\ ~cmp.equal
    /\ Len(SeqOf(cmp.a)) >= 2
    /\ binaryTreesEquivalent(cmp.b, cmp.a)

\* ------------------------------------------------------------------------
\* Further properties of the traversal.
\* ------------------------------------------------------------------------
Reverse(s) == [i \in 1..Len(s) |-> s[Len(s) + 1 - i]]

\* C12: on a non-empty tree a Reverse-Order traversal delivers the In-Order
\* sequence of the same tree backwards: what the consumer holds is always a
\* prefix of it, and all of it once the channel is seen closed.
C12_ReverseOrderIsReversedInOrder ==
    (trav.order = "Reverse-Order" /\ TreeOf(trav.subject).root # NIL)
    => /\ IsPrefix(cons.got, Reverse(InOrder(TreeOf(trav.subject).nodes,
                                               TreeOf(trav.subject).root)))
       /\ cons.state = "done"
          => cons.got = Reverse(InOrder(TreeOf(trav.subject).nodes,
                                        TreeOf(trav.subject).root))

\* A Reverse-Order traversal of a three-node tree ran to the end.
C12_Witness ==
    /\ cons.state = "done"
    /\ trav.order = "Reverse-Order"
    /\ Len(cons.got) = 3
    /\ cons.got # InOrder(TreeOf(trav.subject).nodes, TreeOf(trav.subject).root)
    /\ Height(TreeOf(trav.subject).nodes, TreeOf(trav.subject).root) = 2

\* The producer is at a send: ch <- tree.Value() is its next statement.
AtSend ==
    /\ prod.status = "running"
    /\ prod.stack # <<>>
    /\ Top(prod.stack).node # NIL
    /\ Instr(trav.order, Top(prod.stack)) = "V"

\* The value the producer is sending.
Sending == TreeOf(trav.subject).nodes[Top(prod.stack).node].value

\* C13: values pass from producer to consumer one at a time by rendezvous:
\* the step that completes a send is the step in which the consumer
\* receives that very value, and the consumer receives nothing otherwise,
\* so the producer is never a value ahead and the order is kept.
C13_RendezvousHandOff ==
    [][/\ (AtSend /\ prod' # prod)
          => /\ cons.state = "receiving"
             /\ cons'.got = Append(cons.got, Sending)
       /\ cons'.got # cons.got
          => /\ AtSend
             /\ prod' = [prod EXCEPT !.stack = Advance(@)]
             /\ cons'.got = Append(cons.got, Sending)]_vars

\* Mid-traversal: two values handed over, the producer at its third send.
C13_Witness ==
    /\ AtSend
    /\ cons.state = "receiving"
    /\ Len(cons.got) = 2

\* What a traversal hands to a consumer that keeps receiving.
ToDeliver(subject, order) ==
    IF subject \in StubTraverse \/ subject = "none" THEN <<>>
    ELSE IF order \in {"In-Order", "Pre-Order", "Post-Order"}
         THEN Defined(order, TreeOf(subject))
    ELSE IF order = "Reverse-Order"
         THEN Reverse(InOrder(TreeOf(subject).nodes, TreeOf(subject).root))
    ELSE <<>>

\* C14 as stated: a consumer that stops after fewer values than the tree
\* holds leaves a producer that never closes the channel and never exits.
C14_LeakedWheneverTreeHoldsMore ==
    (/\ cons.state = "abandoned"
     /\ Len(cons.got) < Cardinality(NodesOf(TreeOf(trav.subject).nodes,
                                            TreeOf(trav.subject).root)))
    => ch # "closed" /\ prod.status # "exited"

\* C14 as amended: a consumer that stops after fewer values than the
\* traversal delivers leaves the producer running with the channel open,
\* and from some moment on the producer is blocked at its next send for
\* ever.
C14_ProducerLeaked ==
    /\ [](cons.state = "abandoned" /\ Len(cons.got) < Len(ToDeliver(trav.subject, trav.order))
          => ch = "open" /\ prod.status = "running")
    /\ (cons.state = "abandoned" /\ Len(cons.got) < Len(ToDeliver(trav.subject, trav.order)))
       ~> [](AtSend /\ ch = "open")

\* The consumer left after one value of three; the producer waits at the
\* second send.
C14_Witness ==
    /\ cons.state = "abandoned"
    /\ Len(cons.got) = 1
    /\ Len(ToDeliver(trav.subject, trav.order)) = 3
    /\ AtSend
    /\ Sending = ToDeliver(trav.subject, trav.order)[2]

\* The values of a sequence.
Range(s) == {s[i] : i \in 1..Len(s)}

\* C15: an In-Order traversal of an AVL container reads the live nodes, so
\* an Insert made while it is in flight shows in what it delivers: when the
\* consumer sees the channel closed it holds the In-Order sequence of the
\* tree before the Insert or of the tree after it, unless the Insert
\* rotated, in which case it holds stored values only but possibly with one
\* skipped or repeated.
C15_LiveTraversal ==
    (cons.state = "done" /\ live.inserted)
    => \/ cons.got = live.before
       \/ cons.got = live.after
       \/ avlLast.rots # <<>> /\ Range(cons.got) \subseteq Range(live.after)

\* An Insert during the traversal made it deliver a sequence that is
\* neither that of the tree before nor that of the tree after: a stored
\* value was skipped.
C15_Witness ==
    /\ cons.state = "done"
    /\ live.inserted
    /\ cons.got # live.before
    /\ cons.got # live.after
    /\ Range(cons.got) # Range(live.after)

\* ------------------------------------------------------------------------
\* Properties of Insert and Delete on every variant.
\* ------------------------------------------------------------------------
\* C16: an Insert or a Delete that returns false, on the AVL, the BST or the
\* RedBlack container or on their root nodes, leaves the container as it
\* was: same nodes, values, child and parent links and balance factors.
C16_FalseLeavesTreeUnchanged ==
    \A v \in FrameValues :
        /\ ~AVLInsertResult(avl, v).ret => AVLInsertResult(avl, v).c = avl
        /\ ~BSTInsertResult(bst, v).ret => BSTInsertResult(bst, v).c = bst
        /\ ~RedBlackInsertResult(rb, v).ret => RedBlackInsertResult(rb, v).c = rb
        /\ ~AVLDeleteResult(avl, v).ret => AVLDeleteResult(avl, v).c = avl
        /\ ~BSTDeleteResult(bst, v).ret => BSTDeleteResult(bst, v).c = bst
        /\ ~RedBlackDeleteResult(rb, v).ret => RedBlackDeleteResult(rb, v).c = rb
        /\ ~avlNodeDelete(avl.nodes, avl.root, v).ret
           => avlNodeDelete(avl.nodes, avl.root, v).h = avl.nodes

\* An AVL tree that has rotated just refused a duplicate.
C16_Witness ==
    /\ avlLast.op = "Insert"
    /\ ~avlLast.ret
    /\ Len(avl.nodes) >= 3
    /\ Height(avl.nodes, avl.root) = 2
    /\ Search(avl.nodes, avl.root, avlLast.v)

\* C17: Insert(v) on a nil node reference of any node type answers false and
\* changes nothing.
C17_NilInsertIsRefused ==
    /\ nilCall.node # "none" => ~nilCall.ret /\ ~nilCall.changed
    /\ \A node \in NodeTypes, v \in FrameValues :
          NilInsertResult(node, v).h = HeapOf(node)

\* The receivers of Traverse that are containers.
Containers == {"BST", "AVL", "AVL.part_001", "RedBlack"}

\* C18: a traversal of an empty container, whatever the order and the
\* container, never crashes and delivers nothing (and then closes the
\* channel).
C18_EmptyTraverseIsQuiet ==
    (trav.subject \in Containers /\ TreeOf(trav.subject).root = NIL)
    => prod.status # "panicked" /\ cons.got = <<>>

\* ------------------------------------------------------------------------
\* Properties of Height.
\* ------------------------------------------------------------------------
\* The number of levels below and including the nodes S.
RECURSIVE LevelCount(_, _)
LevelCount(h, S) ==
    IF S = {} THEN 0
    ELSE 1 + LevelCount(h, ({h[n].left : n \in S} \cup {h[n].right : n \in S}) \ {NIL})

\* The number of nodes on the longest path from the root to a leaf.
LongestPath(c) == IF c.root = NIL THEN 0 ELSE LevelCount(c.nodes, {c.root})

Max(a, b) == IF a > b THEN a ELSE b

HeightIsLongestPath(c, height) ==
    /\ height = LongestPath(c)
    /\ c.root = NIL => height = 0
    /\ Len(c.nodes) = 1 => height = 1
    /\ \A n \in NodesOf(c.nodes, c.root) :
          Height(c.nodes, n) = 1 + Max(Height(c.nodes, c.nodes[n].left),
                                       Height(c.nodes, c.nodes[n].right))

\* C19: Height is 0 for an empty container and for a nil node, 1 for a
\* single node, and otherwise one more than the larger of the heights of the
\* two children: the number of nodes on the longest path from the root to
\* a leaf.
C19_HeightIsLongestPath ==
    /\ HeightIsLongestPath(avl, AVLHeight(avl))
    /\ HeightIsLongestPath(bst, BSTHeight(bst))
    /\ HeightIsLongestPath(rb, RedBlackHeight(rb))
    /\ Height(avl.nodes, NIL) = 0

\* A BST of four nodes and height 3 whose root has two children of
\* different heights.
C19_Witness ==
    /\ Len(bst.nodes) = 4
    /\ BSTHeight(bst) = 3
    /\ bst.nodes[bst.root].left # NIL
    /\ bst.nodes[bst.root].right # NIL
    /\ Height(bst.nodes, bst.nodes[bst.root].left)
         > Height(bst.nodes, bst.nodes[bst.root].right)

\* ------------------------------------------------------------------------
\* Properties of the Level-Order traversal.
\* ------------------------------------------------------------------------
\* C20: a Level-Order traversal of any tree delivers no value, and the
\* consumer sees the channel closed: it ends with the empty sequence.
C20_LevelOrderIsEmpty ==
    /\ [](trav.order = "Level-Order" => cons.got = <<>>)
    /\ (cons.state = "receiving" /\ trav.order = "Level-Order")
       ~> (cons.state = "done" /\ cons.got = <<>>)

\* ------------------------------------------------------------------------
\* Properties of Delete.
\* ------------------------------------------------------------------------
\* C21: Delete(v) of a value the tree does not hold, on an empty container
\* or on a nil node, answers false and leaves the tree as it was, for the
\* AVL, the BST and the RedBlack variant.
C21_DeleteOfAbsentIsRefused ==
    /\ \A v \in FrameValues :
          /\ ~AVLSearchResult(avl, v)
             => AVLDeleteResult(avl, v) = [c |-> avl, ret |-> FALSE]
          /\ ~BSTSearchResult(bst, v)
             => BSTDeleteResult(bst, v) = [c |-> bst, ret |-> FALSE]
          /\ ~Search(rb.nodes, rb.root, v)
             => RedBlackDeleteResult(rb, v) = [c |-> rb, ret |-> FALSE]
          /\ avlNodeDelete(avl.nodes, NIL, v) = [h |-> avl.nodes, ret |-> FALSE]
          /\ BSTNodeDelete(bst.nodes, NIL, v) = [h |-> bst.nodes, ret |-> FALSE]
          /\ redBlackNodeDelete(rb.nodes, NIL, v) = [h |-> rb.nodes, ret |-> FALSE]
    /\ (avlLast.op = "Delete" /\ ~AVLSearchResult(avl, avlLast.v)) => ~avlLast.ret
    /\ (bstLast.op = "Delete" /\ ~BSTSearchResult(bst, bstLast.v)) => ~bstLast.ret

\* A BST of three or more values was asked to delete a value it does not
\* hold.
C21_Witness ==
    /\ bstLast.op = "Delete"
    /\ ~bstLast.ret
    /\ ~BSTSearchResult(bst, bstLast.v)
    /\ Len(bst.nodes) >= 3

\* The sequence s without the value v.
Without(s, v) == SelectSeq(s, LAMBDA x : x # v)

\* C22: a Delete(v) on a container that holds v answers true and removes v:
\* afterwards Search(v) is false and the In-Order sequence is the previous
\* one without v.
C22_DeleteRemoves ==
    [][/\ (avlLast'.op = "Delete" /\ AVLSearchResult(avl, avlLast'.v))
          => /\ avlLast'.ret
             /\ ~AVLSearchResult(avl', avlLast'.v)
             /\ InOrder(avl'.nodes, avl'.root)
                  = Without(InOrder(avl.nodes, avl.root), avlLast'.v)
       /\ (bstLast'.op = "Delete" /\ BSTSearchResult(bst, bstLast'.v))
          => /\ bstLast'.ret
             /\ ~BSTSearchResult(bst', bstLast'.v)
             /\ InOrder(bst'.nodes, bst'.root)
                  = Without(InOrder(bst.nodes, bst.root), bstLast'.v)]_vars

\* ------------------------------------------------------------------------
\* Properties of the exported functions.
\* ------------------------------------------------------------------------
\* C23: the exported Equivalent(a, b) answers true when a and b have the
\* same In-Order sequence, and the exported Equal(a, b) answers true when
\* they have the same values in the same shape, whatever the variants.
C23_ExportedComparators ==
    pub.a # "none"
    => /\ SeqOf(pub.a) = SeqOf(pub.b) => pub.equivalent
       /\ (SeqOf(pub.a) = SeqOf(pub.b) /\ Isomorphic(pub.a, pub.b)) => pub.equal

\* What a client can observe of a container: every Search, Height and the
\* In-Order sequence.
Observed(c) ==
    [search |-> {v \in CmpValues : Search(c.nodes, c.root, v)},
     height |-> Height(c.nodes, c.root),
     inOrder |-> InOrder(c.nodes, c.root)]

\* The container a Tree value refers to, after the step.
OperandTreeAfter(x) ==
    IF x = "bst" THEN bst' ELSE IF x = "avl" THEN avl' ELSE rb'

\* C24: the tree Clone returns shares nothing with the tree it was given:
\* an Insert through either of the two leaves what the other one shows
\* (every Search, Height, the In-Order sequence) as it was.
C24_CloneSharesNothing ==
    [][/\ (clone # NoClone /\ clone'.last = "clone")
          => Observed(OperandTreeAfter(clone.of)) = Observed(OperandTree(clone.of))
       /\ (clone # NoClone /\ clone'.last = "original")
          => Observed(OperandTreeAfter(clone.ref)) = Observed(OperandTree(clone.ref))]_vars

\* ------------------------------------------------------------------------
\* Properties of the rotations.
\* ------------------------------------------------------------------------
\* The subtree rooted at t as a value: <<left subtree, value, right subtree>>.
RECURSIVE Subtree(_, _)
Subtree(h, t) ==
    IF t = NIL THEN <<>>
    ELSE <<Subtree(h, h[t].left), h[t].value, Subtree(h, h[t].right)>>

\* The subtree a left rotation should leave at H, given the subtree before:
\* N's value on top, H's value on the left over H's former left subtree
\* and N's former left subtree, N's former right subtree on the right.
LeftRotated(before) ==
    <<  <<before[1], before[2], before[3][1]>>, before[3][2], before[3][3]  >>

\* The mirror: C's value on top over C's former left subtree, H's value on
\* the right over C's former right subtree and H's former right subtree.
RightRotated(before) ==
    <<  before[1][1], before[1][2], <<before[1][3], before[2], before[3]>>  >>

\* C25: rotateLeft(H) on a node H with a right child N keeps the In-Order
\* sequence of the subtree and leaves N's value at the subtree root, H's
\* value in its left child over H's former left subtree and N's former
\* left subtree, and N's former right subtree on the right.
C25_RotateLeftShape ==
    rot.op = "rotateLeft"
    => /\ InOrder(avl.nodes, rot.node) = InOrder(rot.before, rot.node)
       /\ Subtree(avl.nodes, rot.node) = LeftRotated(Subtree(rot.before, rot.node))

\* C26: rotateRight(H) on a node H with a left child C keeps the In-Order
\* sequence of the subtree and leaves C's value at the subtree root over
\* C's former left subtree, and H's value in the right child over C's
\* former right subtree and H's former right subtree.
C26_RotateRightShape ==
    rot.op = "rotateRight"
    => /\ InOrder(avl.nodes, rot.node) = InOrder(rot.before, rot.node)
       /\ Subtree(avl.nodes, rot.node) = RightRotated(Subtree(rot.before, rot.node))

\* A right rotation was made on a node that had a right child and whose
\* left child had two children.
C26_Witness ==
    /\ rot.op = "rotateRight"
    /\ rot.before[rot.node].right # NIL
    /\ rot.before[rot.before[rot.node].left].left # NIL
    /\ rot.before[rot.before[rot.node].left].right # NIL

\* The nodes a rotation touches directly: the node and its two children.
Affected(h, node) == {node, h[node].left, h[node].right} \ {NIL}

\* C29: when rotateLeft(node) or rotateRight(node) returns, the stored
\* balance factor of node and of each of its children is height(right) -
\* height(left) of its current children, also when node ends without a
\* left child.
C29_RotationRefreshesBalanceFactors ==
    rot.op # "none"
    => \A n \in Affected(avl.nodes, rot.node) :
          avl.nodes[n].bf = balanceFactor(avl.nodes, n)

\* ------------------------------------------------------------------------
\* Properties of the rebalancing loop of avlNode.Insert.
\* ------------------------------------------------------------------------
\* C27: one Insert on the AVL container applies at most one rebalancing
\* operation, a single or a double rotation, although the walk towards
\* the root goes on after it.
C27_AtMostOneRebalancing ==
    avlLast.op = "Insert" => Len(avlLast.rots) <= 1

\* The first node on the way up from x whose stored balance factor is
\* outside [-1, 1]; NIL when there is none.
RECURSIVE FirstOutOfBalance(_, _)
FirstOutOfBalance(h, x) ==
    IF x = NIL THEN NIL
    ELSE IF h[x].bf \notin -1..1 THEN x
    ELSE FirstOutOfBalance(h, h[x].parent)

\* The rebalancing operation the rule names for node x.
RuleFor(h, x) ==
    IF h[x].bf > 1
    THEN IF h[x].right # NIL /\ h[h[x].right].bf < 0 THEN "RightLeft" ELSE "Left"
    ELSE IF h[x].left # NIL /\ h[h[x].left].bf > 0 THEN "LeftRight" ELSE "Right"

\* The rotations of an Insert start with the one the rule names for the
\* first node out of balance above the new leaf of the tree h.
RotatedByRule(h, rots) ==
    FirstOutOfBalance(h, h[Len(h)].parent) # NIL
    => /\ rots # <<>>
       /\ rots[1] = <<RuleFor(h, FirstOutOfBalance(h, h[Len(h)].parent)),
                      FirstOutOfBalance(h, h[Len(h)].parent)>>

\* C28: in an Insert on the AVL container the first ancestor x of the new
\* leaf, going up, whose stored balance factor is outside [-1, 1] is rotated
\* in that call: Right-then-Left if x.bf > 1 and x.right.bf < 0, Left if
\* x.bf > 1 and x.right.bf >= 0, Left-then-Right if x.bf < -1 and
\* x.left.bf > 0, Right if x.bf < -1 and x.left.bf <= 0.
C28_FirstOutOfBalanceIsRotated ==
    [][(avl.root # NIL /\ Len(avl'.nodes) = Len(avl.nodes) + 1)
       => RotatedByRule(avlNodeAttach(avl.nodes, avl.root, avlLast'.v),
                        avlLast'.rots)]_vars

\* ------------------------------------------------------------------------
\* Properties of the parent links.
\* ------------------------------------------------------------------------
\* The node the walk x = x.parent from n ends at.
RECURSIVE TopOf(_, _)
TopOf(h, n) == IF h[n].parent = NIL THEN n ELSE TopOf(h, h[n].parent)

\* The children of node n.
ChildrenOf(h, n) == {h[n].left, h[n].right} \ {NIL}

\* C30: after every completed Insert on the AVL container the parent links
\* mirror the child links: the root has no parent, every other node is a
\* child of its parent, every child has its parent as parent, the root
\* pointer is still the node of the first Insert, and every walk up the
\* parent links ends at the root.
C30_ParentLinksMirror ==
    (avl.root # NIL /\ ~avlLast.panic)
    => /\ avl.root = 1
       /\ avl.nodes[avl.root].parent = NIL
       /\ AVLNodes = 1..Len(avl.nodes)
       /\ \A n \in AVLNodes :
             \A c \in ChildrenOf(avl.nodes, n) : avl.nodes[c].parent = n
       /\ \A n \in AVLNodes \ {avl.root} :
             /\ avl.nodes[n].parent # NIL
             /\ n \in ChildrenOf(avl.nodes, avl.nodes[n].parent)
       /\ \A n \in AVLNodes : TopOf(avl.nodes, n) = avl.root

\* An Insert has just made a double rotation in a tree of five or more
\* nodes.
C30_Witness ==
    /\ avlLast.op = "Insert"
    /\ avlLast.rots # <<>>
    /\ avlLast.rots[1][1] \in {"RightLeft", "LeftRight"}
    /\ Len(avl.nodes) >= 5
    /\ ~avlLast.panic

\* ------------------------------------------------------------------------
\* Values kept by rebalancing.
\* ------------------------------------------------------------------------
\* The bag of the elements of a sequence.
BagOfSeq(s) == [v \in Range(s) |-> Cardinality({i \in 1..Len(s) : s[i] = v})]

\* C31: after any sequence of Insert calls on the AVL container the bag of
\* the values in the nodes of the tree is the bag of the values for which
\* Insert returned true, and the tree has as many nodes as there were Insert
\* calls that returned true.
C31_NoValueLostOrInvented ==
    ~avlLast.panic =>
        /\ BagOfSeq(InOrder(avl.nodes, avl.root)) = avlStored
        /\ Cardinality(AVLNodes) = BagCardinality(avlStored)
        /\ Len(avl.nodes) = BagCardinality(avlStored)

\* C31 witness: an Insert that returned true has just made a double rotation
\* in a tree of at least five nodes, and the values are all there.
C31_Witness ==
    /\ avlLast.op = "Insert"
    /\ avlLast.ret
    /\ ~avlLast.panic
    /\ \E i \in 1..Len(avlLast.rots) :
          avlLast.rots[i][1] \in {"RightLeft", "LeftRight"}
    /\ Cardinality(AVLNodes) >= 5
    /\ BagOfSeq(InOrder(avl.nodes, avl.root)) = avlStored

\* ------------------------------------------------------------------------
\* The goroutines of binaryTreesEquivalent.
\* ------------------------------------------------------------------------
\* Producer s of the call stands at a send.
EquivAtSend(s) ==
    /\ eq.prod[s].status = "running"
    /\ eq.prod[s].stack # <<>>
    /\ Instr("In-Order", Top(eq.prod[s].stack)) = "V"

\* C32: once binaryTreesEquivalent has returned, with either result, on two
\* trees that are not empty, no producer it started stands blocked at a
\* send: both In-Order traversals were read to their end.
C32_EquivalentDrainsBoth ==
    (eq.pc = "returned" /\ ~isTreeNil(eq.of["a"]) /\ ~isTreeNil(eq.of["b"]))
    => \A s \in Sides : ~EquivAtSend(s)

\* The answer of the running call is the answer of the function.
EquivalentAnswer ==
    eq.pc = "returned" => eq.ret = binaryTreesEquivalent(eq.of["a"], eq.of["b"])

\* ------------------------------------------------------------------------
\* RedBlack next to BST.
\* ------------------------------------------------------------------------
\* Two subtrees have the same values at the same places.
RECURSIVE SameTree(_, _, _, _)
SameTree(ha, ta, hb, tb) ==
    IF ta = NIL \/ tb = NIL THEN ta = NIL /\ tb = NIL
    ELSE /\ ha[ta].value = hb[tb].value
         /\ SameTree(ha, ha[ta].left, hb, hb[tb].left)
         /\ SameTree(ha, ha[ta].right, hb, hb[tb].right)

WantedTree(v) ==
    /\ avl.root # NIL
    /\ NodesOf(avl.nodes, avl.root) = {avl.root}
    /\ avl.nodes[avl.root].value = v
    /\ avl.nodes[avl.root].bf = 0

\* C34: Insert(v) on a nil avlNode reference returns true, and the reference
\* is afterwards Equal (binaryTreesEqual) to a tree of one node holding v
\* with balance factor 0.
C34_NilAVLInsertMakesNode ==
    (nilCall.node = "avlNode" /\ WantedTree(nilCall.v))
    => /\ nilCall.ret
       /\ binaryTreesEqual(ReceiverAfter(nilCall.node, nilCall.v), "avl")
====
